---- MODULE Spec2Model ----
(***************************************************************************)
(* Model of the SSE transport (utils/sse.ts, streamSSE) and of the         *)
(* streaming chat reducer (hooks/useChatStream, sendMessage) of the        *)
(* SurfaceLabs front-end.                                                   *)
(*                                                                         *)
(* Text is modelled as a sequence of atoms (indivisible runs of            *)
(* characters); string concatenation is \o.  The response body is a        *)
(* sequence of byte units; the server writes whole frames, the network     *)
(* delivers them to reader.read() in arbitrary chunks.                     *)
(***************************************************************************)
EXTENDS Naturals, Sequences, FiniteSets, TLC

\* ------------------------------------------------------------------ bounds

\* Number of sendMessage calls (turns) of one chat hook.
MaxTurns == 2
\* Number of writes the server makes, over all response bodies.
MaxSends == 2
\* Number of frames delivered to the reducer in the runs that feed it parsed
\* frames.
MaxEvents == 4
\* Number of frames delivered, over all turns, in the runs of several turns.
MaxTurnEvents == 2

Turns == 1..MaxTurns

\* ------------------------------------------------------------------ text

NL == "\n"
SP == " "
QUOTE == "\""

\* JS undefined, as it appears where a string is expected.
Undefined == <<"<undefined>">>

\* JS truthiness of a string-or-undefined value.
Truthy(x) == x # Undefined /\ x # <<>>

\* `${x}` in a template literal.
ToText(x) == IF x = Undefined THEN <<"undefined">> ELSE x

\* String.prototype.includes, for a needle that is one atom.
Includes(s, atom) == \E i \in 1..Len(s) : s[i] = atom

IsSpace(u) == u \in {SP, "\r", "\t"}

RECURSIVE TrimStart(_)
TrimStart(s) ==
    IF s # <<>> /\ IsSpace(Head(s)) THEN TrimStart(Tail(s)) ELSE s

RECURSIVE TrimEnd(_)
TrimEnd(s) ==
    IF s # <<>> /\ IsSpace(s[Len(s)]) THEN TrimEnd(SubSeq(s, 1, Len(s) - 1)) ELSE s

\* String.prototype.trim
Trim(s) == TrimEnd(TrimStart(s))

\* buffer.split("\n"): the pieces between newlines; always at least one piece,
\* the last one being the text after the last newline.
RECURSIVE SplitNL(_, _, _)
SplitNL(s, cur, acc) ==
    IF s = <<>> THEN Append(acc, cur)
    ELSE IF Head(s) = NL THEN SplitNL(Tail(s), <<>>, Append(acc, cur))
    ELSE SplitNL(Tail(s), Append(cur, Head(s)), acc)

Split(s) == SplitNL(s, <<>>, <<>>)

\* ------------------------------------------------------------------ bytes

\* The two bytes of one two-byte UTF-8 character, and the character.
ByteLead == "0xC3"
ByteCont == "0xA9"
CharE == "e-acute"
Replacement == "U+FFFD"

\* TextDecoder.decode(value, {stream: true}): an incomplete multi-byte
\* sequence at the end of a chunk is held back and completed by the next
\* chunk.  pend is the held-back lead byte (<<>> if none).
RECURSIVE DecodeBytes(_, _, _)
DecodeBytes(bytes, pend, out) ==
    IF bytes = <<>> THEN [text |-> out, pend |-> pend]
    ELSE LET b == Head(bytes) IN
         IF pend # <<>>
         THEN IF b = ByteCont
              THEN DecodeBytes(Tail(bytes), <<>>, Append(out, CharE))
              ELSE DecodeBytes(bytes, <<>>, Append(out, Replacement))
         ELSE IF b = ByteLead THEN DecodeBytes(Tail(bytes), <<b>>, out)
         ELSE IF b = ByteCont THEN DecodeBytes(Tail(bytes), <<>>, Append(out, Replacement))
         ELSE DecodeBytes(Tail(bytes), <<>>, Append(out, b))

Decode(bytes, pend) == DecodeBytes(bytes, pend, <<>>)

\* ------------------------------------------------------------------ JSON

\* The units of JSON text: "{", "}", ",", a key with its colon, a quote,
\* a number, and the atoms of string contents.
JsonKeys == {"\"status\":", "\"token\":", "\"message\":", "\"event\":",
             "\"tool_name\":", "\"response_summary\":", "\"state_delta\":",
             "\"citation\":", "\"file_path\":", "\"proposed_content\":",
             "\"original_content\":", "\"proposal_id\":", "\"owner\":",
             "\"prompt_tokens\":", "\"candidates_tokens\":", "\"thoughts_tokens\":",
             "\"cached_tokens\":", "\"total_tokens\":"}

KeyName(u) ==
    CASE u = "\"status\":" -> "status"
      [] u = "\"token\":" -> "token"
      [] u = "\"message\":" -> "message"
      [] u = "\"event\":" -> "event"
      [] u = "\"tool_name\":" -> "tool_name"
      [] u = "\"response_summary\":" -> "response_summary"
      [] u = "\"state_delta\":" -> "state_delta"
      [] u = "\"citation\":" -> "citation"
      [] u = "\"file_path\":" -> "file_path"
      [] u = "\"proposed_content\":" -> "proposed_content"
      [] u = "\"original_content\":" -> "original_content"
      [] u = "\"proposal_id\":" -> "proposal_id"
      [] u = "\"owner\":" -> "owner"
      [] u = "\"prompt_tokens\":" -> "prompt_tokens"
      [] u = "\"candidates_tokens\":" -> "candidates_tokens"
      [] u = "\"thoughts_tokens\":" -> "thoughts_tokens"
      [] u = "\"cached_tokens\":" -> "cached_tokens"
      [] u = "\"total_tokens\":" -> "total_tokens"

JsonFail == [ok |-> FALSE, val |-> <<>>, rest |-> <<>>]

\* Index of the first QUOTE in s at or after i, 0 if none.
RECURSIVE QuoteAt(_, _)
QuoteAt(s, i) ==
    IF i > Len(s) THEN 0 ELSE IF s[i] = QUOTE THEN i ELSE QuoteAt(s, i + 1)

\* Number literals, and their values.
NumUnits == {"3", "5", "8"}

NumOf(u) == CASE u = "3" -> 3 [] u = "5" -> 5 [] u = "8" -> 8

\* A nested object literal written as one unit, and its value.
ObjUnits == {"{\"title\":\"T\",\"uri\":\"U\",\"type\":\"web\"}"}

ObjOf(u) == [title |-> <<"T">>, uri |-> <<"U">>, type |-> <<"web">>]

\* A short string literal written as one unit, and its text.
StrUnits == {"\"A\"", "\"B\"", "\"boom\"", "\"old\"", "\"error\"", "\"\""}

StrOf(u) ==
    CASE u = "\"A\"" -> <<"A">>
      [] u = "\"B\"" -> <<"B">>
      [] u = "\"boom\"" -> <<"boom">>
      [] u = "\"old\"" -> <<"old">>
      [] u = "\"error\"" -> <<"error">>
      [] u = "\"\"" -> <<>>

Structural ==
    {"{", "}", ",", QUOTE, NL} \cup JsonKeys \cup NumUnits \cup ObjUnits \cup StrUnits

\* A JSON value: a number, an object literal, or a string: a literal in one
\* unit, or QUOTE atoms QUOTE.  A string is decoded to its text.
ParseValue(vs) ==
    IF vs = <<>> THEN JsonFail
    ELSE IF Head(vs) \in StrUnits
    THEN [ok |-> TRUE, val |-> StrOf(Head(vs)), rest |-> Tail(vs)]
    ELSE IF Head(vs) \in NumUnits
    THEN [ok |-> TRUE, val |-> NumOf(Head(vs)), rest |-> Tail(vs)]
    ELSE IF Head(vs) \in ObjUnits
    THEN [ok |-> TRUE, val |-> ObjOf(Head(vs)), rest |-> Tail(vs)]
    ELSE IF Head(vs) # QUOTE THEN JsonFail
    ELSE LET j == QuoteAt(vs, 2) IN
         IF j = 0 THEN JsonFail
         ELSE LET body == SubSeq(vs, 2, j - 1) IN
              IF \E i \in 1..Len(body) : body[i] \in Structural THEN JsonFail
              ELSE [ok |-> TRUE, val |-> body, rest |-> SubSeq(vs, j + 1, Len(vs))]

\* obj with key k set to v (a later member of the same name wins).
WithKey(obj, k, v) ==
    [x \in DOMAIN obj \cup {k} |-> IF x = k THEN v ELSE obj[x]]

EmptyObject == [x \in {} |-> <<>>]

\* member ("," member)*
RECURSIVE ParseMembers(_, _)
ParseMembers(ms, acc) ==
    IF ms = <<>> \/ Head(ms) \notin JsonKeys THEN JsonFail
    ELSE LET v == ParseValue(Tail(ms)) IN
         IF ~v.ok THEN JsonFail
         ELSE LET acc2 == WithKey(acc, KeyName(Head(ms)), v.val) IN
              IF v.rest = <<>> THEN [ok |-> TRUE, val |-> acc2, rest |-> <<>>]
              ELSE IF Head(v.rest) = "," THEN ParseMembers(Tail(v.rest), acc2)
              ELSE JsonFail

\* JSON.parse(jsonStr) for object payloads: ok = FALSE is a SyntaxError.
\* The payload is a function from the member names present to their values.
JSONparse(us) ==
    IF Len(us) < 2 \/ us[1] # "{" \/ us[Len(us)] # "}" THEN JsonFail
    ELSE IF Len(us) = 2 THEN [ok |-> TRUE, val |-> EmptyObject, rest |-> <<>>]
    ELSE ParseMembers(SubSeq(us, 2, Len(us) - 1), EmptyObject)

\* data.k
Get(data, k) == IF k \in DOMAIN data THEN data[k] ELSE Undefined

\* The message of the SyntaxError JSON.parse throws.
SyntaxErrorMsg == <<"Unexpected token in JSON">>

\* ------------------------------------------------------------------ state

VARIABLES
    turn,         \* per sendMessage call: its closure, its transport, its stream
    isStreaming,  \* useChatStream: useState(false)
    error,        \* useChatStream: useState(null); <<>> is null
    sessionId,    \* sessionIdRef.current; <<>> is null
    dispatched,   \* CODE_PROPOSAL events dispatched on window, in order
    fetchCalls,   \* number of fetch invocations
    sends,        \* number of writes the server has made
    sessionLog,   \* what was done with sessionIdRef, in order: read for a
                  \* request body, set from a response header, reset
    ui            \* AppContext (pendingProposals, activeFile), CodeViewer
                  \* (isProcessing, viewMode), the snackbar, and the
                  \* requests of the viewer and of the file tree in flight

vars ==
    <<turn, isStreaming, error, sessionId, dispatched, fetchCalls, sends, sessionLog, ui>>

\* ---------------------------------------------------------------- reducer

Placeholder == <<"Initializing...">>

InitialUsage ==
    [prompt_tokens |-> 0, candidates_tokens |-> 0, thoughts_tokens |-> 0,
     cached_tokens |-> 0, total_tokens |-> 0]

\* history.join("\n")
RECURSIVE Join(_)
Join(h) ==
    IF h = <<>> THEN <<>>
    ELSE IF Len(h) = 1 THEN ToText(h[1])
    ELSE ToText(h[1]) \o <<NL>> \o Join(Tail(h))

\* A test that finds everything.
ContainsAlways(h, x) == TRUE

\* A test that finds nothing.
ContainsNever(h, x) == FALSE

\* A test that looks at the last entry only.
ContainsLast(h, x) == h # <<>> /\ h[Len(h)] = x

\* history.includes(x)
Contains(h, x) == \E i \in 1..Len(h) : h[i] = x

\* buildReasoning(): the current status, and below it the history.
buildReasoning(tr) ==
    IF Len(tr.history) = 0 THEN tr.currentStatus
    ELSE ToText(tr.currentStatus) \o <<NL, "---", NL>> \o Join(tr.history)

Apology(msg) == <<"Sorry, an error occurred: ">> \o ToText(msg)

\* The snapshot every emission after the first is built from.
FullSnapshot(tr, content, isThinking) ==
    [reasoning |-> buildReasoning(tr), content |-> content, isThinking |-> isThinking,
     citations |-> tr.citations, stateChanges |-> tr.stateChanges, usage |-> tr.usage]

\* onUpdate(snapshot): s is the state a callback runs in, [tr, isStreaming,
\* error, dispatched]; the snapshots delivered are kept in tr.updates, each
\* with the place of sendMessage that made the call and the status line and
\* history the closure held at the call.
onUpdate(s, by, snapshot) ==
    [s EXCEPT !.tr.updates = Append(@, [by |-> by, snap |-> snapshot,
                                        currentStatus |-> s.tr.currentStatus,
                                        history |-> s.tr.history])]

\* Object.assign(usage, data)
ObjectAssign(usage, data) ==
    [k \in DOMAIN usage \cup DOMAIN data |->
        IF k \in DOMAIN data THEN data[k] ELSE usage[k]]

EvStatus == <<"status">>
EvToken == <<"token">>
EvComplete == <<"complete">>
EvError == <<"error">>
EvMessage == <<"message">>

ToolCallNames == {<<"tool_call">>, <<"tool", SP, "call">>}
\* A switch with one label for the tool response.
ToolResponseUnderscoreOnly == {<<"tool_response">>}

ToolResponseNames == {<<"tool_response">>, <<"tool", SP, "response">>}
SubAgentCallNames ==
    {<<"sub_agent_call">>, <<"sub_agent", SP, "call">>, <<"sub", SP, "agent", SP, "call">>}
SubAgentResponseNames ==
    {<<"sub_agent_response">>, <<"sub_agent", SP, "response">>,
     <<"sub", SP, "agent", SP, "response">>}
StateChangeNames == {<<"state_change">>, <<"state", SP, "change">>}

DefaultErrorMsg == <<"An error occurred">>

\* x || dflt on strings
OrElse(x, dflt) == IF Truthy(x) THEN x ELSE dflt

\* A token that is appended only if the content does not already end with it.
AppendTokenOnce(content, data) ==
    LET token == OrElse(Get(data, "token"), <<>>)
        n == Len(content) - Len(token)
    IN IF n >= 0 /\ SubSeq(content, n + 1, Len(content)) = token
       THEN content ELSE content \o token

\* content += (data.token || "")
AppendToken(content, data) == content \o OrElse(Get(data, "token"), <<>>)

\* A test that asks for a proposal id as well.
HasProposalWithId(data) ==
    /\ Truthy(Get(data, "file_path")) /\ Truthy(Get(data, "proposed_content"))
    /\ Truthy(Get(data, "proposal_id"))

\* if (data.file_path && data.proposed_content)
HasProposalFields(data) ==
    Truthy(Get(data, "file_path")) /\ Truthy(Get(data, "proposed_content"))

\* A test that finds every turn still thinking.
StillThinkingAlways(content) == TRUE

\* const stillThinking = content.length === 0
StillThinking(content) == Len(content) = 0

\* The switch of sendMessage's onEvent, up to its break: the accumulator
\* after the event (complete and error are handled in onEvent itself).
Dispatch(s, event, data) ==
    LET tr == s.tr IN
    CASE event = EvStatus ->
           LET h == IF Truthy(tr.currentStatus) /\ tr.currentStatus # Placeholder
                       /\ ~Contains(tr.history, tr.currentStatus)
                    THEN Append(tr.history, tr.currentStatus) ELSE tr.history
           IN [s EXCEPT !.tr.history = h, !.tr.currentStatus = Get(data, "status")]
      [] event \in ToolCallNames -> s
      [] event \in ToolResponseNames ->
           [s EXCEPT !.tr.currentStatus =
               ToText(Get(data, "tool_name")) \o <<" - ">>
                 \o OrElse(Get(data, "response_summary"), <<"Done">>)]
      [] event \in SubAgentCallNames -> s
      [] event \in SubAgentResponseNames ->
           [s EXCEPT !.tr.currentStatus =
               ToText(Get(data, "tool_name")) \o <<" - ">>
                 \o OrElse(Get(data, "response_summary"), <<"Complete">>)]
      [] event = EvToken ->
           [s EXCEPT !.tr.content = AppendToken(@, data)]
      [] event = <<"citation">> ->
           IF "citation" \in DOMAIN data
           THEN [s EXCEPT !.tr.citations = Append(@, data["citation"])] ELSE s
      [] event \in StateChangeNames ->
           IF Truthy(Get(data, "state_delta"))
           THEN [s EXCEPT !.tr.stateChanges = Append(@, data["state_delta"])] ELSE s
      [] event = <<"token_usage">> ->
           [s EXCEPT !.tr.usage = ObjectAssign(@, data)]
      [] event = <<"code_proposal">> ->
           IF HasProposalFields(data)
           THEN [s EXCEPT
                   !.dispatched = Append(@,
                       [filePath |-> data["file_path"],
                        originalContent |-> Get(data, "original_content"),
                        proposedContent |-> data["proposed_content"],
                        proposalId |-> Get(data, "proposal_id")]),
                   !.tr.currentStatus = <<"Proposed changes for ">> \o data["file_path"]]
           ELSE s
      [] OTHER -> s

\* sendMessage's onEvent callback.
onEvent(s, event, data) ==
    IF event = EvComplete
    THEN LET s1 == [s EXCEPT !.isStreaming = FALSE]
         IN onUpdate(s1, "complete", FullSnapshot(s1.tr, s1.tr.content, FALSE))
    ELSE IF event = EvError
    THEN LET errorMsg == OrElse(Get(data, "message"), DefaultErrorMsg)
             s1 == [s EXCEPT !.error = errorMsg, !.isStreaming = FALSE,
                             !.tr.currentStatus = <<"Error: ">> \o errorMsg]
         IN onUpdate(s1, "error",
                     FullSnapshot(s1.tr, OrElse(s1.tr.content, Apology(errorMsg)), FALSE))
    ELSE LET s1 == Dispatch(s, event, data)
         IN onUpdate(s1, "event",
                     FullSnapshot(s1.tr, s1.tr.content, StillThinking(s1.tr.content)))

\* sendMessage's onError callback.
onError(s, err) ==
    LET s1 == [s EXCEPT !.error = err, !.isStreaming = FALSE,
                        !.tr.currentStatus = <<"Error: ">> \o ToText(err)]
    IN onUpdate(s1, "onError", FullSnapshot(s1.tr, Apology(err), FALSE))

\* The catch block of sendMessage.
SendMessageCatch(s, message) ==
    LET errorMsg == OrElse(message, <<"Stream connection failed">>)
        s1 == [s EXCEPT !.error = errorMsg, !.isStreaming = FALSE]
    IN onUpdate(s1, "catch",
                [reasoning |-> <<"Error: ">> \o errorMsg,
                 content |-> Apology(errorMsg), isThinking |-> FALSE])

\* -------------------------------------------------------------- transport

\* A callback invocation streamSSE makes is recorded in tr.calls.
Called(s, call) == [s EXCEPT !.tr.calls = Append(@, call)]

\* The accumulator of a turn: the variables of sendMessage's closure.
Acc(tr) ==
    [currentStatus |-> tr.currentStatus, history |-> tr.history,
     content |-> tr.content, citations |-> tr.citations,
     stateChanges |-> tr.stateChanges, usage |-> tr.usage]

\* callbacks.onEvent?.(lastEventType, data); the record of the call keeps the
\* accumulator before and after it, the number of snapshots it emitted, the
\* last of them, and the CODE_PROPOSAL events it dispatched.
CallOnEvent(s, type, data) ==
    LET s1 == onEvent(s, type, data)
    IN Called(s1, [cb |-> "onEvent", type |-> type, data |-> data,
                   before |-> Acc(s.tr), after |-> Acc(s1.tr),
                   dispatched |-> SubSeq(s1.dispatched, Len(s.dispatched) + 1,
                                         Len(s1.dispatched)),
                   snapshots |-> Len(s1.tr.updates) - Len(s.tr.updates),
                   snap |-> s1.tr.updates[Len(s1.tr.updates)].snap])

\* callbacks.onError?.(msg); from is the place of streamSSE that calls it: the
\* dispatch of an error frame, or the outer catch.
CallOnError(s, from, msg) ==
    onError(Called(s, [cb |-> "onError", from |-> from, msg |-> msg]), msg)

\* A catch that rethrows whatever it caught.
CatchParseAlways(s, message) == [s EXCEPT !.tr.thrown = <<message>>]

\* A catch that logs whatever it caught and goes on.
CatchParseNever(s, message) == s

\* catch (parseErr) around one data: line: rethrown only while the current
\* event type is "error", logged otherwise.
CatchParse(s, message) ==
    IF s.tr.lastEventType = EvError THEN [s EXCEPT !.tr.thrown = <<message>>] ELSE s

\* One data: payload: JSON.parse, onEvent, the named callbacks.  Of those
\* sendMessage passes only onError.
ProcessData(s, jsonStr) ==
    LET parsed == JSONparse(jsonStr) IN
    IF ~parsed.ok THEN CatchParse(s, SyntaxErrorMsg)
    ELSE LET data == parsed.val
             s1 == CallOnEvent(s, s.tr.lastEventType, data)
             eventType == IF s.tr.lastEventType # EvMessage
                          THEN s.tr.lastEventType ELSE Get(data, "event")
         IN IF eventType = EvError
            THEN LET msg == OrElse(Get(data, "message"), DefaultErrorMsg)
                 IN CatchParse(CallOnError(s1, "frame", msg), msg)
            ELSE s1

\* A loop body whose event type holds for one data: line only.
HandleLineForgets(s, line) ==
    IF Head(line) = "event:"
    THEN [s EXCEPT !.tr.lastEventType = Trim(Tail(line))]
    ELSE IF Head(line) = "data:"
    THEN LET jsonStr == Trim(Tail(line))
             s1 == IF jsonStr = <<>> THEN s ELSE ProcessData(s, jsonStr)
         IN [s1 EXCEPT !.tr.lastEventType = EvMessage]
    ELSE s

\* The body of the for loop over the complete lines of the buffer.
HandleLine(s, line) ==
    IF Head(line) = "event:"
    THEN [s EXCEPT !.tr.lastEventType = Trim(Tail(line))]
    ELSE IF Head(line) = "data:"
    THEN LET jsonStr == Trim(Tail(line))
         IN IF jsonStr = <<>> THEN s ELSE ProcessData(s, jsonStr)
    ELSE s

\* The same, with the line recorded in tr.linelog: its text, the event type
\* in force, and what handling it did to the reducer and to the call.
ProcessLine(s, part) ==
    LET line == Trim(part) IN
    IF line = <<>> THEN s
    ELSE LET s1 == HandleLine(s, line)
         IN [s1 EXCEPT !.tr.linelog =
                Append(@, [line |-> line, type |-> s.tr.lastEventType,
                           statusBefore |-> s.tr.currentStatus,
                           statusAfter |-> s1.tr.currentStatus,
                           callbacks |-> Len(s1.tr.calls) - Len(s.tr.calls),
                           snapshots |-> Len(s1.tr.updates) - Len(s.tr.updates),
                           threw |-> s1.tr.thrown # <<>>])]

\* for (const part of parts): stops at the first line that throws.
RECURSIVE ProcessLines(_, _)
ProcessLines(s, parts) ==
    IF parts = <<>> \/ s.tr.thrown # <<>> THEN s
    ELSE ProcessLines(ProcessLine(s, Head(parts)), Tail(parts))

\* A read loop that starts every chunk with an empty buffer.
KeepLastDropped(parts) == <<>>

\* buffer = parts.pop() || "": the text after the last newline stays.
KeepLast(parts) == parts[Len(parts)]

\* One iteration of the read loop on a chunk of bytes: decode, append to the
\* buffer, split, keep the last piece, process the complete lines.
ProcessChunk(s, value) ==
    LET dec == Decode(value, s.tr.pend)
        buffer == s.tr.buffer \o dec.text
        parts == Split(buffer)
        s1 == [s EXCEPT !.tr.pend = dec.pend, !.tr.buffer = KeepLast(parts)]
    IN ProcessLines([s1 EXCEPT !.tr.cut = @ \/ dec.pend # <<>>],
                    SubSeq(parts, 1, Len(parts) - 1))

NetworkErrorMsg == <<"Network error. Please check your connection.">>

\* errorMessage of the outer catch of streamSSE.
FinalMessage(message) ==
    LET errorMessage == OrElse(message, <<"Unknown error">>) IN
    IF Includes(errorMessage, "Failed to fetch") \/ Includes(errorMessage, "NetworkError")
    THEN NetworkErrorMsg ELSE errorMessage

\* The outer catch of streamSSE, and what follows in the same task: onError,
\* the rejection, and the catch block of sendMessage that receives it.
StreamCatch(s, message) ==
    LET errorMessage == FinalMessage(message)
        s1 == CallOnError(s, "catch", errorMessage)
        s2 == [s1 EXCEPT !.tr.sse = "rejected", !.tr.rejectMsg = errorMessage,
                         !.tr.thrown = <<>>]
        s3 == SendMessageCatch(s2, errorMessage)
    IN [s3 EXCEPT !.tr.pc = "settled"]

\* ------------------------------------------------------------ environment

\* The writes the server may make: whole frames, lone data: lines, and an
\* unterminated tail.
FrameStatusA ==
    <<"event:", SP, "status", NL, "data:", "{", "\"status\":", "\"A\"", "}", "\r", NL>>
FrameStatusB ==
    <<"event:", "status", NL, "data:", "{", "\"status\":", "\"B\"", "}", NL>>
FrameToken ==
    <<"event:", "token", NL,
      "data:", "{", "\"token\":", QUOTE, ByteLead, ByteCont, QUOTE, "}", NL, NL>>
FrameComplete == <<"event:", "complete", NL, "data:", "{", "}", NL>>
FrameError ==
    <<"event:", "error", NL, "data:", "{", "\"message\":", "\"boom\"", "}", NL>>
\* An unlabelled frame that carries its event name in the payload.
LineLegacyError ==
    <<"data:", "{", "\"event\":", "\"error\"", ",", "\"message\":", "\"old\"", "}", NL>>
\* Frames whose payload is not JSON (the closing brace is missing), under the
\* event types "status" and "error".
FrameMalformedStatus ==
    <<"event:", "status", NL, "data:", "{", "\"status\":", "\"B\"", NL>>
FrameMalformedError == <<"event:", "error", NL, "data:", "{", NL>>
\* A line the server never terminates.
TailUnterminated == <<"data:", "{", "}">>

Menu == {FrameStatusA, FrameStatusB, FrameToken, FrameComplete, FrameError,
         LineLegacyError, FrameMalformedStatus, FrameMalformedError,
         TailUnterminated}

SessionHeaders == {<<>>, <<"sid-1">>}

FetchFailures == {<<"Failed to fetch">>, <<"Load failed">>}

FolderIds == {<<>>, <<"folder-1">>}

StatusText == <<"Internal Server Error">>
BodyText == <<"upstream unavailable">>
\* A response body that quotes a network failure of the server's own.
BodyTextNetwork == <<"NetworkError", " when attempting to reach upstream">>

\* The bodies a response with a status outside the success range may carry.
BodyTexts == {BodyText, BodyTextNetwork}

\* ------------------------------------------------------ proposals, viewer

\* String.prototype.endsWith
EndsWith(s, suffix) ==
    Len(suffix) <= Len(s) /\ SubSeq(s, Len(s) - Len(suffix) + 1, Len(s)) = suffix

\* AppContext, CodeViewer and the snackbar after mounting.  activeFile is
\* <<>> for null and <<file>> for a file; shown tells that showSnackbar was
\* called since the last accept/reject request was sent, and outcome records
\* how that request ended.
InitialUi ==
    [pendingProposals |-> [x \in {} |-> <<>>], activeFile |-> <<>>,
     isProcessing |-> FALSE, viewMode |-> "code",
     snackbar |-> [open |-> FALSE, message |-> <<>>, severity |-> "info"],
     shown |-> FALSE, request |-> <<>>, loading |-> {}, outcome |-> <<>>]

\* `proposal_${Date.now()}`
GeneratedId == <<"proposal_", "now">>

\* filePath.split("/").pop() || ...: the last segment of the path.
FileName(path) == <<path[Len(path)]>>

\* CodeViewer: whether pendingProposals.get(activeFile.path) finds a
\* proposal, and the pending content and proposal id derived at each render.
HasProposal(u) ==
    u.activeFile # <<>> /\ u.activeFile[1].path \in DOMAIN u.pendingProposals

ViewerPendingContent(u) ==
    IF HasProposal(u) /\ Truthy(u.pendingProposals[u.activeFile[1].path].pendingContent)
    THEN u.pendingProposals[u.activeFile[1].path].pendingContent
    ELSE IF u.activeFile # <<>> THEN u.activeFile[1].pendingContent ELSE Undefined

ViewerProposalId(u) ==
    IF HasProposal(u) /\ Truthy(u.pendingProposals[u.activeFile[1].path].proposalId)
    THEN u.pendingProposals[u.activeFile[1].path].proposalId
    ELSE IF u.activeFile # <<>> THEN u.activeFile[1].proposalId ELSE Undefined

\* The two effects of CodeViewer, run after a render that follows the state
\* old: switch to the diff view when pending content appears, back to the code
\* view when there is none.
Effects(old, new) ==
    LET pc == ViewerPendingContent(new)
        m1 == IF pc # ViewerPendingContent(old) /\ Truthy(pc) THEN "diff" ELSE new.viewMode
        m2 == IF new.activeFile # <<>> /\ ~Truthy(pc) /\ m1 = "diff" THEN "code" ELSE m1
    IN [new EXCEPT !.viewMode = m2]

\* addProposal(proposal)
addProposal(m, proposal) ==
    [x \in DOMAIN m \cup {proposal.filePath} |->
        IF x = proposal.filePath THEN proposal ELSE m[x]]

\* removeProposal(filePath)
removeProposal(m, filePath) == [x \in DOMAIN m \ {filePath} |-> m[x]]

\* AppContext's listener of CODE_PROPOSAL events.
handleCodeProposal(u, detail) ==
    LET proposal == [proposalId |-> OrElse(detail.proposalId, GeneratedId),
                     filePath |-> detail.filePath,
                     originalContent |-> OrElse(detail.originalContent, <<>>),
                     pendingContent |-> detail.proposedContent]
        prev == u.activeFile
        file == IF prev # <<>> /\ (prev[1].path = detail.filePath
                                    \/ EndsWith(prev[1].path, detail.filePath))
                THEN [prev[1] EXCEPT !.pendingContent = detail.proposedContent,
                                     !.proposalId = detail.proposalId]
                ELSE [name |-> FileName(detail.filePath), path |-> detail.filePath,
                      content |-> OrElse(detail.originalContent, <<>>),
                      pendingContent |-> detail.proposedContent,
                      proposalId |-> detail.proposalId]
    IN [u EXCEPT !.pendingProposals = addProposal(@, proposal), !.activeFile = <<file>>]

\* window.dispatchEvent runs the listener on each event, in order; the
\* viewer renders afterwards.
RECURSIVE HandleAll(_, _)
HandleAll(u, events) ==
    IF events = <<>> THEN u
    ELSE HandleAll(handleCodeProposal(u, Head(events)), Tail(events))

Listeners(u, events) == Effects(u, HandleAll(u, events))

\* showSnackbar(message, severity)
showSnackbar(u, message, severity) ==
    [u EXCEPT !.snackbar = [open |-> TRUE, message |-> message, severity |-> severity],
              !.shown = TRUE]

\* ------------------------------------------------------------------ turns

IdleTurn ==
    [pc |-> "idle", folderId |-> <<>>, reqSessionId |-> <<>>,
     currentStatus |-> Placeholder, history |-> <<>>, content |-> <<>>,
     citations |-> <<>>, stateChanges |-> <<>>, usage |-> InitialUsage,
     lastEventType |-> EvMessage, buffer |-> <<>>, pend |-> <<>>, thrown |-> <<>>,
     net |-> <<>>, closed |-> FALSE,
     response |-> "none", errorText |-> <<>>, sse |-> "none", rejectMsg |-> <<>>,
     cut |-> FALSE,
     wire |-> <<>>, linelog |-> <<>>, calls |-> <<>>, updates |-> <<>>]

Init ==
    /\ turn = [t \in Turns |-> IdleTurn]
    /\ isStreaming = FALSE
    /\ error = <<>>
    /\ sessionId = <<>>
    /\ dispatched = <<>>
    /\ fetchCalls = 0
    /\ sends = 0
    /\ sessionLog = <<>>
    /\ ui = InitialUi

\* The state the callbacks of turn t run in.
Run(t) ==
    [tr |-> turn[t], isStreaming |-> isStreaming, error |-> error,
     dispatched |-> dispatched]

\* The state a handler of turn t leaves.
Commit(t, s) ==
    /\ turn' = [turn EXCEPT ![t] = s.tr]
    /\ isStreaming' = s.isStreaming
    /\ error' = s.error
    /\ dispatched' = s.dispatched
    /\ ui' = Listeners(ui, SubSeq(s.dispatched, Len(dispatched) + 1, Len(s.dispatched)))

MissingContextMsg == <<"Repository context (folder ID) is missing.">>

\* A sendMessage without the folder check.
MissingContextNever(folderId) == FALSE

\* if (!folderId)
MissingContext(folderId) == ~Truthy(folderId)

\* A callback that stores whatever headers.get returned.
onHeadersAlways(held, header) == header

\* A callback that keeps the first session id it was given.
onHeadersFirstWins(held, header) == IF Truthy(held) THEN held ELSE onHeadersAlways(held, header)

\* sendMessage's onHeaders callback: the session id held afterwards.
onHeaders(held, header) == IF Truthy(header) THEN header ELSE held

\* A transport that never reports the headers.
CallOnHeadersSkipped(s, header) == s

\* if (callbacks.onHeaders) callbacks.onHeaders(response.headers)
CallOnHeaders(s, header) == Called(s, [cb |-> "onHeaders", header |-> header])

\* sendMessage(query, onUpdate, folderId), up to the await of fetch.
SendMessage(t, folderId) ==
    /\ turn[t].pc = "idle"
    /\ \A u \in Turns : u < t => turn[u].pc # "idle"
    /\ IF MissingContext(folderId)
       THEN LET s1 == [Run(t) EXCEPT !.error = MissingContextMsg,
                                     !.tr.folderId = folderId, !.tr.pc = "settled"]
                s2 == onUpdate(s1, "missing",
                               [reasoning |-> <<"Error: Missing Context">>,
                                content |-> MissingContextMsg,
                                isThinking |-> FALSE])
            IN /\ Commit(t, s2)
               /\ UNCHANGED <<sessionId, fetchCalls, sends, sessionLog>>
       ELSE LET s1 == [Run(t) EXCEPT !.isStreaming = TRUE, !.error = <<>>,
                                     !.tr.folderId = folderId,
                                     !.tr.reqSessionId = sessionId,
                                     !.tr.pc = "fetching"]
                s2 == onUpdate(s1, "start", [reasoning |-> buildReasoning(s1.tr),
                                             isThinking |-> TRUE])
            IN /\ Commit(t, s2)
               /\ fetchCalls' = fetchCalls + 1
               /\ sessionLog' = Append(sessionLog,
                      [op |-> "send", turn |-> t, value |-> sessionId])
               /\ UNCHANGED <<sessionId, sends>>

\* fetch rejects (no connection).
FetchFails(t, message) ==
    /\ turn[t].pc = "fetching"
    /\ Commit(t, StreamCatch([Run(t) EXCEPT !.tr.response = "failed"], message))
    /\ UNCHANGED <<sessionId, fetchCalls, sends, sessionLog>>

\* fetch resolves with a status outside the success range; the body text is
\* read, or the status text is used when the body cannot be read.
FetchNotOk(t, body, readable) ==
    /\ turn[t].pc = "fetching"
    /\ LET errorText == IF readable THEN body ELSE StatusText
       IN Commit(t, StreamCatch([Run(t) EXCEPT !.tr.response = "notOk",
                                               !.tr.errorText = errorText],
                                <<"Failed to connect to server: ">> \o errorText))
    /\ UNCHANGED <<sessionId, fetchCalls, sends, sessionLog>>

\* fetch resolves with a success status: onHeaders, then the reader.
FetchOk(t, header, hasBody) ==
    /\ turn[t].pc = "fetching"
    /\ LET s1 == CallOnHeaders([Run(t) EXCEPT !.tr.response = "ok"], header)
       IN IF hasBody
          THEN Commit(t, [s1 EXCEPT !.tr.pc = "reading"])
          ELSE Commit(t, StreamCatch(s1, <<"No response stream available">>))
    /\ sessionId' = onHeaders(sessionId, header)
    /\ sessionLog' = Append(sessionLog, [op |-> "headers", turn |-> t, value |-> header])
    /\ UNCHANGED <<fetchCalls, sends>>

\* The server writes to the response body of turn t.
ServerSend(t, w) ==
    /\ turn[t].pc = "reading"
    /\ ~turn[t].closed
    /\ sends < MaxSends
    /\ turn' = [turn EXCEPT ![t].net = @ \o w]
    /\ sends' = sends + 1
    /\ UNCHANGED <<isStreaming, error, sessionId, dispatched, fetchCalls, sessionLog, ui>>

\* The server ends the response body of turn t.
ServerClose(t) ==
    /\ turn[t].pc = "reading"
    /\ ~turn[t].closed
    /\ turn' = [turn EXCEPT ![t].closed = TRUE]
    /\ UNCHANGED <<isStreaming, error, sessionId, dispatched, fetchCalls, sends, sessionLog, ui>>

\* reader.read() resolves with the next n bytes; one iteration of the loop.
Read(t, n) ==
    /\ turn[t].pc = "reading"
    /\ n \in 1..Len(turn[t].net)
    /\ LET value == SubSeq(turn[t].net, 1, n)
           s0 == [Run(t) EXCEPT !.tr.net = SubSeq(@, n + 1, Len(@)),
                                !.tr.wire = @ \o value]
           s1 == ProcessChunk(s0, value)
       IN IF s1.tr.thrown # <<>>
          THEN Commit(t, StreamCatch(s1, s1.tr.thrown[1]))
          ELSE Commit(t, s1)
    /\ UNCHANGED <<sessionId, fetchCalls, sends, sessionLog>>

\* An end of stream that handles what is left in the buffer as a last line.
DoneFlushes(s) ==
    [ProcessLine(s, s.tr.buffer) EXCEPT !.tr.pc = "settled", !.tr.sse = "resolved"]

\* if (done) break: the loop ends with the buffer as it is, streamSSE
\* resolves and sendMessage returns.
Done(s) == [s EXCEPT !.tr.pc = "settled", !.tr.sse = "resolved"]

\* reader.read() resolves with done.
ReadDone(t) ==
    /\ turn[t].pc = "reading"
    /\ turn[t].net = <<>>
    /\ turn[t].closed
    /\ Commit(t, Done(Run(t)))
    /\ UNCHANGED <<sessionId, fetchCalls, sends, sessionLog>>

\* reader.read() rejects: the connection broke.  Bytes the server wrote and
\* the reader never received are lost with it, so the step is taken with
\* nothing in flight.
ReadFails(t, message) ==
    /\ turn[t].pc = "reading"
    /\ ~turn[t].closed
    /\ turn[t].net = <<>>
    /\ Commit(t, StreamCatch(Run(t), message))
    /\ UNCHANGED <<sessionId, fetchCalls, sends, sessionLog>>

\* resetSession()
ResetSession ==
    /\ sessionId # <<>>
    /\ sessionId' = <<>>
    /\ sessionLog' = Append(sessionLog, [op |-> "reset", turn |-> 0, value |-> <<>>])
    /\ UNCHANGED <<turn, isStreaming, error, dispatched, fetchCalls, sends, ui>>

IsOnEvent(c) == c.cb = "onEvent"
IsOnError(c) == c.cb = "onError"
IsOnHeaders(c) == c.cb = "onHeaders"

\* The (eventType, data) pairs delivered to onEvent, in order.
EventsOf(calls) == SelectSeq(calls, IsOnEvent)

\* A parsed frame as streamSSE hands it to onEvent.
Frame(event, data) == [event |-> event, data |-> data]

\* { k: v } and { k1: v1, k2: v2 }
Obj1(k, v) == WithKey(EmptyObject, k, v)
Obj2(k1, v1, k2, v2) == WithKey(Obj1(k1, v1), k2, v2)

\* The frames that set the status line.
EvtStatusA == Frame(EvStatus, Obj1("status", <<"A">>))
EvtStatusB == Frame(EvStatus, Obj1("status", <<"B">>))
EvtStatusInit == Frame(EvStatus, Obj1("status", Placeholder))
EvtStatusNone == Frame(EvStatus, EmptyObject)
EvtToolResponse == Frame(<<"tool_response">>, Obj1("tool_name", <<"grep">>))
EvtSubAgentResponse ==
    Frame(<<"sub_agent_response">>,
          Obj2("tool_name", <<"planner">>, "response_summary", <<"ok">>))
EvtCodeProposal ==
    Frame(<<"code_proposal">>,
          Obj2("file_path", <<"f.ts">>, "proposed_content", <<"x">>))

StatusFrames ==
    {EvtStatusA, EvtStatusB, EvtStatusInit, EvtStatusNone, EvtToolResponse,
     EvtSubAgentResponse, EvtCodeProposal}

\* One frame handled by the read loop: an event: line naming e.event
\* (neither "message" nor "error") and a data: line whose payload parses to
\* e.data: onEvent, and none of the named callbacks sendMessage passes.
Deliver(t, e) ==
    /\ turn[t].pc = "reading"
    /\ Len(EventsOf(turn[t].calls)) < MaxEvents
    /\ e.event \notin {EvMessage, EvError}
    /\ Commit(t, CallOnEvent([Run(t) EXCEPT !.tr.lastEventType = e.event],
                             e.event, e.data))
    /\ UNCHANGED <<sessionId, fetchCalls, sends, sessionLog>>

\* The steps of one turn whose stream carries the frames F, line by line.
StepFrames(t, F) ==
    \/ \E f \in FolderIds : SendMessage(t, f)
    \/ \E h \in SessionHeaders, b \in BOOLEAN : FetchOk(t, h, b)
    \/ \E e \in F : Deliver(t, e)

\* One turn fed status, tool and proposal frames.
NextStatus == StepFrames(1, StatusFrames)

SpecStatus == Init /\ [][NextStatus]_vars

\* The frames of an answer: tokens (one without a token field), the usage
\* counters (two payloads that name some of the fields, one that names all),
\* and the end of the turn.
EvtTokenHel == Frame(EvToken, Obj1("token", <<"Hel">>))
EvtTokenLo == Frame(EvToken, Obj1("token", <<"lo">>))
EvtTokenNone == Frame(EvToken, EmptyObject)
EvtComplete == Frame(EvComplete, EmptyObject)
EvtUsageA == Frame(<<"token_usage">>, Obj2("prompt_tokens", 3, "total_tokens", 8))
EvtUsageB == Frame(<<"token_usage">>, Obj1("prompt_tokens", 5))
EvtUsageFull ==
    Frame(<<"token_usage">>,
          [prompt_tokens |-> 5, candidates_tokens |-> 3, thoughts_tokens |-> 3,
           cached_tokens |-> 3, total_tokens |-> 5])

AnswerFrames ==
    {EvtStatusA, EvtTokenHel, EvtTokenLo, EvtTokenNone, EvtComplete,
     EvtUsageA, EvtUsageB, EvtUsageFull}

\* One turn fed the frames of an answer.
NextAnswer == StepFrames(1, AnswerFrames)

SpecAnswer == Init /\ [][NextAnswer]_vars

\* Frames whose event names are written with a space or with capitals.
EvtToolResponseSpace == Frame(<<"tool", SP, "response">>, EvtToolResponse.data)
EvtToolResponseCaps == Frame(<<"Tool_Response">>, EvtToolResponse.data)
EvtToolCall == Frame(<<"tool_call">>, Obj1("tool_name", <<"grep">>))
EvtToolCallCaps == Frame(<<"Tool_Call">>, Obj1("tool_name", <<"grep">>))
EvtUsageSpace == Frame(<<"token", SP, "usage">>, EvtUsageA.data)
EvtStatusCaps == Frame(<<"Status">>, EvtStatusA.data)
EvtStateChangeSpace ==
    Frame(<<"state", SP, "change">>, Obj1("state_delta", <<"plan updated">>))

NameFrames ==
    {EvtStatusB, EvtToolResponse, EvtToolResponseSpace, EvtToolResponseCaps,
     EvtToolCall, EvtToolCallCaps, EvtUsageA, EvtUsageSpace, EvtStatusCaps,
     EvtStateChangeSpace}

\* One turn fed frames under variants of the event names.
NextNames == StepFrames(1, NameFrames)

SpecNames == Init /\ [][NextNames]_vars

\* Frames that leave the accumulator alone, by a label of the switch that
\* only breaks or by a name the switch does not know, among frames that set
\* the status line, add to the content and end the turn.
EvtSubAgentCall == Frame(<<"sub_agent_call">>, Obj1("tool_name", <<"planner">>))
EvtHeartbeat == Frame(<<"heartbeat">>, EmptyObject)

QuietFrames ==
    {EvtToolCall, EvtSubAgentCall, EvtHeartbeat, EvtStatusA, EvtTokenHel, EvtTokenNone,
     EvtComplete}

\* One turn fed frames of which some change nothing.
NextQuiet == StepFrames(1, QuietFrames)

SpecQuiet == Init /\ [][NextQuiet]_vars

\* The values of the X-Chat-Session-Id header of a response (<<>>: absent).
TurnHeaders == {<<>>, <<"sid-1">>, <<"sid-2">>}

TurnFrames == {EvtStatusA, EvtTokenHel, EvtComplete}

\* The number of frames delivered to the turns 1..n.
RECURSIVE Delivered(_)
Delivered(n) ==
    IF n = 0 THEN 0 ELSE Len(EventsOf(turn[n].calls)) + Delivered(n - 1)

\* The steps of the turns T of one chat hook while their streams are open,
\* each turn with its own response, and of resetSession; sendMessage may be
\* called while a turn is in flight.
StepTurns(T, F, H) ==
    \/ \E t \in T : SendMessage(t, <<"folder-1">>)
    \/ \E t \in T, h \in H : FetchOk(t, h, TRUE)
    \/ \E t \in T, e \in F : Delivered(MaxTurns) < MaxTurnEvents /\ Deliver(t, e)
    \/ ResetSession

NextTurns == StepTurns(Turns, TurnFrames, TurnHeaders)

SpecTurns == Init /\ [][NextTurns]_vars

\* A file of the tree as handleClick sets it, with the given content.
TreeFile(path, content) ==
    [name |-> FileName(path), path |-> path, content |-> content,
     pendingContent |-> Undefined, proposalId |-> Undefined]

\* ProjectFiles.handleClick on a file, up to the await of its content.
OpenFile(path) ==
    /\ path \notin ui.loading
    /\ ui' = Effects(ui, [ui EXCEPT !.activeFile = <<TreeFile(path, <<"Loading...">>)>>,
                                    !.loading = @ \cup {path}])
    /\ UNCHANGED <<turn, isStreaming, error, sessionId, dispatched, fetchCalls, sends,
                   sessionLog>>

\* The content request of handleClick ends: with the content, with another
\* status, or by throwing.
FileLoaded(path, result) ==
    /\ path \in ui.loading
    /\ LET u1 == [ui EXCEPT !.loading = @ \ {path}]
           u2 == CASE result = "success" ->
                        [u1 EXCEPT !.activeFile = <<TreeFile(path, <<"text">>)>>]
                   [] result = "throws" ->
                        [u1 EXCEPT !.activeFile =
                            <<TreeFile(path, <<"Error loading content">>)>>]
                   [] OTHER -> u1
       IN ui' = Effects(ui, u2)
    /\ UNCHANGED <<turn, isStreaming, error, sessionId, dispatched, fetchCalls, sends,
                   sessionLog>>

\* The view buttons of CodeViewer; the diff button shows while there is
\* pending content.
SetViewMode(mode) ==
    /\ ui.activeFile # <<>>
    /\ ui.viewMode # mode
    /\ mode = "diff" => Truthy(ViewerPendingContent(ui))
    /\ ui' = Effects(ui, [ui EXCEPT !.viewMode = mode])
    /\ UNCHANGED <<turn, isStreaming, error, sessionId, dispatched, fetchCalls, sends,
                   sessionLog>>

\* CodeViewer.handleProposalAction(action), up to the await of axios.post.
\* The buttons show in the diff view while there is a proposal id and are
\* disabled while a request is processed; the handler keeps the activeFile,
\* pendingContent and proposalId of the render it was created in.
HandleProposalAction(action) ==
    /\ ui.viewMode = "diff"
    /\ ~ui.isProcessing
    /\ Truthy(ViewerProposalId(ui))
    /\ ui.activeFile # <<>>
    /\ ui' = [ui EXCEPT !.isProcessing = TRUE,
                        !.shown = FALSE,
                        !.request = <<[proposal_id |-> ViewerProposalId(ui),
                                       action |-> action,
                                       activeFile |-> ui.activeFile[1],
                                       pendingContent |-> ViewerPendingContent(ui),
                                       pendingProposals |-> ui.pendingProposals]>>]
    /\ UNCHANGED <<turn, isStreaming, error, sessionId, dispatched, fetchCalls, sends,
                   sessionLog>>

\* The record of how a request ended: what the viewer showed before and after.
Outcome(result, old, new) ==
    [result |-> result, request |-> old.request[1],
     before |-> [pendingProposals |-> old.pendingProposals, activeFile |-> old.activeFile],
     after |-> [pendingProposals |-> new.pendingProposals, activeFile |-> new.activeFile],
     shown |-> new.shown, snackbar |-> new.snackbar,
     isProcessing |-> new.isProcessing,
     viewMode |-> old.viewMode,
     enabled |-> new.viewMode = "diff" /\ Truthy(ViewerProposalId(new))]

\* finally { setIsProcessing(false) }, and the render that follows.
Finally(result, old, new) ==
    LET u1 == Effects(old, [new EXCEPT !.isProcessing = FALSE, !.request = <<>>])
    IN [u1 EXCEPT !.outcome = <<Outcome(result, old, u1)>>]

\* The rest of the try block after axios.post resolved.
Resolved(u, success) ==
    LET req == u.request[1] IN
    IF success
    THEN LET u1 == showSnackbar(u, <<"Proposal updated">>, "success")
             u2 == [u1 EXCEPT !.pendingProposals = removeProposal(@, req.activeFile.path)]
             file == IF req.action = "accept" /\ Truthy(req.pendingContent)
                     THEN [req.activeFile EXCEPT !.content = req.pendingContent,
                                                 !.pendingContent = <<>>,
                                                 !.proposalId = Undefined]
                     ELSE [req.activeFile EXCEPT !.pendingContent = <<>>,
                                                 !.proposalId = Undefined]
         IN [u2 EXCEPT !.activeFile = <<file>>, !.viewMode = "code"]
    ELSE u

\* A catch block that drops the proposal as the success branch does.
RejectedDrops(u, detail) ==
    [showSnackbar(u, OrElse(detail, <<"Action failed">>), "error")
        EXCEPT !.pendingProposals = removeProposal(@, u.request[1].activeFile.path)]

\* catch (error): showSnackbar(error.response?.data?.detail || "Action failed")
Rejected(u, detail) == showSnackbar(u, OrElse(detail, <<"Action failed">>), "error")

\* axios.post resolves, with response.data.success true or false.
ProposalActionResolves(success) ==
    /\ ui.request # <<>>
    /\ ui' = Finally(IF success THEN "succeeded" ELSE "refused", ui, Resolved(ui, success))
    /\ UNCHANGED <<turn, isStreaming, error, sessionId, dispatched, fetchCalls, sends,
                   sessionLog>>

\* axios.post rejects, with or without a detail in the response.
ProposalActionRejects(detail) ==
    /\ ui.request # <<>>
    /\ ui' = Finally("rejected", ui, Rejected(ui, detail))
    /\ UNCHANGED <<turn, isStreaming, error, sessionId, dispatched, fetchCalls, sends,
                   sessionLog>>

EvtProposalA ==
    Frame(<<"code_proposal">>,
          [file_path |-> <<"a.ts">>, original_content |-> <<"old">>,
           proposed_content |-> <<"new">>, proposal_id |-> <<"p1">>])

ProposalFrames == {EvtProposalA, EvtCodeProposal}

TreePaths == {<<"src/", "a.ts">>}

ErrorDetails == {Undefined, <<"Proposal not found">>}

\* One turn whose stream carries code proposals, the file tree, and the code
\* viewer with its accept and reject buttons.
NextProposal ==
    \/ SendMessage(1, <<"folder-1">>)
    \/ FetchOk(1, <<"sid-1">>, TRUE)
    \/ \E e \in ProposalFrames : Delivered(MaxTurns) < MaxTurnEvents /\ Deliver(1, e)
    \/ \E p \in TreePaths : OpenFile(p)
    \/ \E p \in TreePaths, r \in {"success", "failure", "throws"} : FileLoaded(p, r)
    \/ \E m \in {"code", "diff"} : SetViewMode(m)
    \/ \E a \in {"accept", "reject"} : HandleProposalAction(a)
    \/ \E ok \in BOOLEAN : ProposalActionResolves(ok)
    \/ \E d \in ErrorDetails : ProposalActionRejects(d)

SpecProposal == Init /\ [][NextProposal]_vars

\* code_proposal payloads: without a file path, without proposed content,
\* and with an empty string as the proposed content.
EvtProposalNoPath == Frame(<<"code_proposal">>, Obj1("proposed_content", <<"x">>))
EvtProposalNoContent == Frame(<<"code_proposal">>, Obj1("file_path", <<"f.ts">>))
EvtProposalEmpty ==
    Frame(<<"code_proposal">>, Obj2("file_path", <<"f.ts">>, "proposed_content", <<>>))

PayloadFrames ==
    {EvtStatusA, EvtProposalA, EvtCodeProposal, EvtProposalNoPath, EvtProposalNoContent,
     EvtProposalEmpty}

\* One turn fed code proposals whose payloads lack one field or another.
NextPayloads == StepFrames(1, PayloadFrames)

SpecPayloads == Init /\ [][NextPayloads]_vars

\* MainInterface.handleSend(input) with a non-blank input and a cloned
\* repository: nothing while isStreaming, else sendMessage with the clone id.
handleSend(t, cloneId) ==
    /\ ~isStreaming
    /\ Truthy(cloneId)
    /\ SendMessage(t, cloneId)

ChatFrames == {EvtStatusA, EvtTokenHel, EvtComplete}

\* The chat of the workspace: turns are started by handleSend only; each has
\* its own response, whose frames arrive one by one and which the server may
\* end.
NextChat ==
    \/ \E t \in Turns : handleSend(t, <<"folder-1">>)
    \/ \E t \in Turns : FetchOk(t, <<"sid-1">>, TRUE)
    \/ \E t \in Turns, e \in ChatFrames :
          Delivered(MaxTurns) < MaxTurnEvents /\ Deliver(t, e)
    \/ \E t \in Turns : ServerClose(t)
    \/ \E t \in Turns : ReadDone(t)

SpecChat == Init /\ [][NextChat]_vars

\* The steps of the turns T when the server writes from the menu M.
Step(T, M) ==
    \/ \E t \in T, f \in FolderIds : SendMessage(t, f)
    \/ \E t \in T, m \in FetchFailures : FetchFails(t, m)
    \/ \E t \in T, b \in BodyTexts, r \in BOOLEAN : FetchNotOk(t, b, r)
    \/ \E t \in T, h \in SessionHeaders, b \in BOOLEAN : FetchOk(t, h, b)
    \/ \E t \in T, w \in M : ServerSend(t, w)
    \/ \E t \in T : ServerClose(t)
    \/ \E t \in T : \E n \in 1..Len(turn[t].net) : Read(t, n)
    \/ \E t \in T : ReadDone(t)
    \/ \E t \in T, m \in FetchFailures : ReadFails(t, m)
    \/ ResetSession

\* One turn of the chat hook, the server writing any frames of the menu.
Next == Step({1}, Menu)

Spec == Init /\ [][Next]_vars

\* ---------------------------------------------------------- analysis view

\* AnalysisView passes streamSSE an onError and an onEvent callback; what the
\* view holds after a streamSSE call is what its callbacks, and then the catch
\* block of startAnalysisStream, make of the calls the transport made.  The
\* view is [logs, status, seen]: seen is the value of status in the render
\* whose effect started the stream, the one the catch block reads.  Log
\* entries are kept without their timestamps.
InitialView == [logs |-> <<>>, status |-> "processing", seen |-> "processing"]

\* addLog(message, type, id): an entry with a known id is replaced in place.
addLog(a, message, type, id) ==
    LET entry == [id |-> id, message |-> message, type |-> type]
        at == {i \in 1..Len(a.logs) : id # Undefined /\ a.logs[i].id = id}
    IN IF at # {}
       THEN [a EXCEPT !.logs[CHOOSE i \in at : \A j \in at : i <= j] = entry]
       ELSE [a EXCEPT !.logs = Append(@, entry)]

\* The onError callback of startAnalysisStream.
AnalysisOnError(a, errorMsg) ==
    [addLog(a, <<"Error: ">> \o ToText(errorMsg), "error", Undefined)
        EXCEPT !.status = "failure"]

\* The onEvent callback of startAnalysisStream.
AnalysisOnEvent(a, eventType, data) ==
    LET chunkId == IF "chunk_index" \in DOMAIN data
                   THEN <<"chunk-", data["chunk_index"]>> ELSE Undefined
        message == Get(data, "message")
    IN CASE eventType = <<"progress">> -> addLog(a, message, "process", chunkId)
         [] eventType = <<"chunk_complete">> -> addLog(a, message, "success", chunkId)
         [] eventType = <<"chunk_failed">> ->
              addLog(a, <<"x ">> \o ToText(message), "warning", chunkId)
         [] eventType = EvComplete ->
              IF Get(data, "status") = <<"success">>
              THEN [addLog(a, <<"Analysis completed successfully.">>, "success", Undefined)
                      EXCEPT !.status = "success"]
              ELSE [addLog(a, <<"Analysis completed with issues: ">> \o ToText(message),
                           "warning", Undefined)
                      EXCEPT !.status = "success"]
         [] OTHER -> a

\* The catch block of startAnalysisStream: if (status !== "failure").
AnalysisCatch(a, message) ==
    IF a.seen # "failure"
    THEN [addLog(a, <<"Connection failed: ">> \o ToText(message), "error", Undefined)
            EXCEPT !.status = "failure"]
    ELSE a

\* The view after the callbacks for the first n calls of the transport.
RECURSIVE AfterCalls(_, _)
AfterCalls(calls, n) ==
    IF n = 0
    THEN addLog(InitialView, <<"Initializing analysis for ", "repo", "...">>, "info",
                Undefined)
    ELSE LET a == AfterCalls(calls, n - 1)
             c == calls[n]
         IN CASE IsOnError(c) -> AnalysisOnError(a, c.msg)
              [] IsOnEvent(c) -> AnalysisOnEvent(a, c.type, c.data)
              [] OTHER -> a

\* startAnalysisStream on the streamSSE call of turn t, as far as it has got.
startAnalysisStream(t) ==
    LET a == AfterCalls(turn[t].calls, Len(turn[t].calls))
    IN IF turn[t].sse = "rejected" THEN AnalysisCatch(a, turn[t].rejectMsg) ELSE a

\* ------------------------------------------------------------- properties

Started(t) == turn[t].pc # "idle"

\* The state streamSSE starts reading in.
FreshRun ==
    [tr |-> [IdleTurn EXCEPT !.pc = "reading"], isStreaming |-> TRUE,
     error |-> <<>>, dispatched |-> <<>>]

\* streamSSE on the bytes received so far, delivered as one chunk.
Unsplit(t) == ProcessChunk(FreshRun, turn[t].wire)

\* C1: however the bytes received so far were split into read chunks, the
\* sequence of (eventType, data) pairs delivered to onEvent is the one the
\* same bytes yield when they arrive as a single chunk.
C1_ChunkingInvariant ==
    \A t \in Turns :
        LET got == EventsOf(turn[t].calls)
            ref == EventsOf(Unsplit(t).tr.calls)
        IN /\ Len(got) = Len(ref)
           /\ \A i \in 1..Len(got) :
                 /\ got[i].type = ref[i].type
                 /\ got[i].data = ref[i].data

\* A read ended inside a two-byte character (inside a line and inside a JSON
\* string), and the token event of that line was delivered with the
\* character whole.
C1_Witness ==
    \E t \in Turns :
        /\ turn[t].cut
        /\ \E i \in 1..Len(turn[t].calls) :
              /\ IsOnEvent(turn[t].calls[i])
              /\ turn[t].calls[i].type = EvToken
              /\ Get(turn[t].calls[i].data, "token") = <<CharE>>

Count(calls, Test(_)) == Len(SelectSeq(calls, Test))

\* Every onEvent call has an onHeaders call before it.
HeadersFirst(calls) ==
    \A i \in 1..Len(calls) :
        IsOnEvent(calls[i]) => \E j \in 1..(i - 1) : IsOnHeaders(calls[j])

\* C2 as stated: in every transport call that has ended, onHeaders was
\* invoked exactly once, and before the first onEvent.
C2_Original ==
    \A t \in Turns :
        turn[t].sse # "none" =>
            /\ Count(turn[t].calls, IsOnHeaders) = 1
            /\ HeadersFirst(turn[t].calls)

\* C2, amended: onHeaders is invoked exactly once in every transport call
\* that received a response with a success status (also when the body is
\* empty or there is no body stream), before the first onEvent, and is not
\* invoked at all when fetch fails or the status is outside the success range.
C2_HeadersOnceOnSuccess ==
    \A t \in Turns :
        /\ Count(turn[t].calls, IsOnHeaders) = (IF turn[t].response = "ok" THEN 1 ELSE 0)
        /\ HeadersFirst(turn[t].calls)

\* A call whose response body was empty has resolved, with onHeaders invoked.
C2_Witness ==
    \E t \in Turns :
        /\ turn[t].sse = "resolved"
        /\ turn[t].wire = <<>>
        /\ Count(turn[t].calls, IsOnHeaders) = 1

\* C3 as stated: when streamSSE has rejected, onError was invoked exactly once,
\* with the message the call rejected with.
C3_OnErrorOnce ==
    \A t \in Turns :
        turn[t].sse = "rejected" =>
            LET errs == SelectSeq(turn[t].calls, IsOnError)
            IN /\ Len(errs) = 1
               /\ errs[1].msg = turn[t].rejectMsg

\* C4 as stated: once a frame was dispatched to onError as an error event, no
\* later frame reaches onEvent and the call has rejected with the frame's
\* message.
C4_ErrorFrameStops ==
    \A t \in Turns :
        \A i \in 1..Len(turn[t].calls) :
            (IsOnError(turn[t].calls[i]) /\ turn[t].calls[i].from = "frame") =>
                /\ \A j \in (i + 1)..Len(turn[t].calls) : ~IsOnEvent(turn[t].calls[j])
                /\ turn[t].sse = "rejected"
                /\ turn[t].rejectMsg = turn[t].calls[i].msg

\* The snapshots a complete event, an error event or a transport failure emits.
IsTerminal(u) == u.by \in {"complete", "error", "onError", "catch"}

\* C5 as stated: a turn delivers at most one terminal snapshot, and no
\* onUpdate call follows it.
C5_OneTerminal ==
    \A t \in Turns :
        \A i \in 1..Len(turn[t].updates) :
            IsTerminal(turn[t].updates[i]) => i = Len(turn[t].updates)

\* C6 as stated: after the reducer has handled a complete event, no later
\* event of the stream triggers an onUpdate call or changes the content.
C6_NothingAfterComplete ==
    \A t \in Turns :
        \A i \in 1..Len(turn[t].updates) :
            turn[t].updates[i].by = "complete" =>
                /\ \A j \in (i + 1)..Len(turn[t].updates) :
                      turn[t].updates[j].by \notin {"event", "complete", "error"}
                /\ turn[t].content = turn[t].updates[i].snap.content

LastUpdate(t) == turn[t].updates[Len(turn[t].updates)]

\* The message of the error event the reducer handled in turn t.
ErrorEventMsg(t) ==
    LET evs == EventsOf(turn[t].calls)
        i == CHOOSE k \in 1..Len(evs) : evs[k].type = EvError
    IN OrElse(Get(evs[i].data, "message"), DefaultErrorMsg)

\* C7 as stated: after an error event the content of the last snapshot is the
\* accumulated content when there is some, the apology otherwise.
C7_ErrorKeepsContent ==
    \A t \in Turns :
        (\E i \in 1..Len(turn[t].updates) : turn[t].updates[i].by = "error") =>
            LastUpdate(t).snap.content =
                IF turn[t].content # <<>> THEN turn[t].content
                ELSE Apology(ErrorEventMsg(t))

\* The turn took a failure path: streamSSE rejected, or a frame was
\* dispatched to onError as an error event.
Failed(t) ==
    \/ turn[t].sse = "rejected"
    \/ \E i \in 1..Len(turn[t].calls) : IsOnError(turn[t].calls[i])

\* The message the last onError call of turn t carried.
FailureMsg(t) ==
    LET errs == SelectSeq(turn[t].calls, IsOnError) IN errs[Len(errs)].msg

\* C8 as stated: once sendMessage has settled after a failure, the last
\* snapshot is not thinking and carries the failure message, and isStreaming
\* is false.
C8_FailureEndsThinking ==
    \A t \in Turns :
        (turn[t].pc = "settled" /\ Failed(t)) =>
            /\ LastUpdate(t).snap.isThinking = FALSE
            /\ LastUpdate(t).snap.content = Apology(FailureMsg(t))
            /\ isStreaming = FALSE

\* C9: a sendMessage call with no folder id makes no fetch call, never opens a
\* stream, leaves isStreaming false, and delivers exactly one snapshot, an
\* error snapshot that is not thinking.
C9_MissingContext ==
    \A t \in Turns :
        (Started(t) /\ ~Truthy(turn[t].folderId)) =>
            /\ turn[t].pc = "settled"
            /\ turn[t].sse = "none" /\ turn[t].response = "none"
            /\ turn[t].calls = <<>>
            /\ fetchCalls = Cardinality({u \in Turns : Started(u) /\ Truthy(turn[u].folderId)})
            /\ (\A u \in Turns : Started(u) => ~Truthy(turn[u].folderId)) => ~isStreaming
            /\ Len(turn[t].updates) = 1
            /\ turn[t].updates[1].snap.isThinking = FALSE
            /\ turn[t].updates[1].snap.content = MissingContextMsg
            /\ error = MissingContextMsg

C9_Witness ==
    \E t \in Turns :
        /\ Started(t) /\ ~Truthy(turn[t].folderId)
        /\ Len(turn[t].updates) = 1 /\ fetchCalls = 0

\* A processed line that is a data: line with a payload JSON.parse rejects.
IsMalformed(l) ==
    /\ Head(l.line) = "data:"
    /\ Trim(Tail(l.line)) # <<>>
    /\ ~JSONparse(Trim(Tail(l.line))).ok

\* A processed line that is a data: line with a payload JSON.parse accepts.
IsWellFormed(l) ==
    /\ Head(l.line) = "data:"
    /\ Trim(Tail(l.line)) # <<>>
    /\ JSONparse(Trim(Tail(l.line))).ok

\* The processed lines are delivered: the onEvent calls are the well-formed
\* data: lines, in order, each with the event type in force at the line.
DeliveredInOrder(t) ==
    LET got == EventsOf(turn[t].calls)
        good == SelectSeq(turn[t].linelog, IsWellFormed)
    IN /\ Len(got) = Len(good)
       /\ \A i \in 1..Len(got) :
             /\ got[i].type = good[i].type
             /\ got[i].data = JSONparse(Trim(Tail(good[i].line))).val

\* C10: handling a malformed data: line under an event type other than
\* "error" invokes no callback, emits no snapshot, leaves currentStatus as it
\* was and throws nothing; and the well-formed data: lines processed, before
\* and after it, are exactly the frames delivered to onEvent, in order.
C10_MalformedSkipped ==
    \A t \in Turns :
        /\ DeliveredInOrder(t)
        /\ \A i \in 1..Len(turn[t].linelog) :
              LET l == turn[t].linelog[i] IN
              (IsMalformed(l) /\ l.type # EvError) =>
                  /\ l.callbacks = 0 /\ l.snapshots = 0
                  /\ l.statusAfter = l.statusBefore
                  /\ ~l.threw

\* A malformed data: line carrying the status "B" was skipped under the event
\* type "status", and a later frame was delivered and set the status "A".
C10_Witness ==
    \E t \in Turns :
        \E i, j \in 1..Len(turn[t].linelog) :
            /\ i < j
            /\ IsMalformed(turn[t].linelog[i])
            /\ turn[t].linelog[i].type = EvStatus
            /\ IsWellFormed(turn[t].linelog[j])
            /\ turn[t].currentStatus = <<"A">>
            /\ Len(EventsOf(turn[t].calls)) >= 1
            /\ turn[t].pc = "reading"

\* The malformed data: lines of turn t handled while the event type was "error".
MalformedUnderError(t) ==
    {i \in 1..Len(turn[t].linelog) :
        IsMalformed(turn[t].linelog[i]) /\ turn[t].linelog[i].type = EvError}

Carries(msg, text) ==
    \E i \in 1..(Len(msg) + 1 - Len(text)) : SubSeq(msg, i, i + Len(text) - 1) = text

\* C12 as stated: after a response with a status outside the success range
\* no frame was delivered to onEvent, onError was invoked with a message that
\* carries the body text (the status text when the body cannot be read), and
\* streamSSE has rejected.
C12_NotOkCarriesBody ==
    \A t \in Turns :
        turn[t].response = "notOk" =>
            /\ EventsOf(turn[t].calls) = <<>>
            /\ \E i \in 1..Len(turn[t].calls) :
                  /\ IsOnError(turn[t].calls[i])
                  /\ Carries(turn[t].calls[i].msg, turn[t].errorText)
            /\ turn[t].sse = "rejected"

\* The onEvent calls of turn t that carried a status event.
StatusCalls(t) == SelectSeq(EventsOf(turn[t].calls), LAMBDA c : c.type = EvStatus)

\* C13: in every state of a turn fed status, tool_response,
\* sub_agent_response and code_proposal events, statusHistory does not
\* contain the placeholder "Initializing..." and has no two consecutive equal
\* entries.
C13_HistoryClean ==
    \A t \in Turns :
        LET h == turn[t].history IN
        /\ \A i \in 1..Len(h) : h[i] # Placeholder
        /\ \A i \in 1..(Len(h) - 1) : h[i] # h[i + 1]

\* The status "A" was set twice in a row and then replaced, and a status
\* event carrying the placeholder text itself was replaced: the history holds
\* "A" once and no placeholder.
C13_Witness ==
    \E t \in Turns :
        LET evs == EventsOf(turn[t].calls) IN
        /\ Len(evs) = 4
        /\ evs[1].data = EvtStatusA.data /\ evs[1].type = EvStatus
        /\ evs[2].data = EvtStatusA.data /\ evs[2].type = EvStatus
        /\ evs[3].data = EvtStatusInit.data /\ evs[3].type = EvStatus
        /\ evs[4].type = EvStatus
        /\ turn[t].history = << <<"A">> >>

\* C18 as stated: a status event pushes the previous currentStatus onto
\* statusHistory exactly when it is meaningful (non-empty and not the
\* placeholder) and differs from the most recent history entry, and then
\* replaces currentStatus with the new value.
C18_Original ==
    \A t \in Turns :
        \A i \in 1..Len(StatusCalls(t)) :
            LET c == StatusCalls(t)[i]
                prev == c.before.currentStatus
                push == /\ Truthy(prev) /\ prev # Placeholder
                        /\ ~ContainsLast(c.before.history, prev)
            IN /\ c.after.history =
                    (IF push THEN Append(c.before.history, prev) ELSE c.before.history)
               /\ c.after.currentStatus = Get(c.data, "status")

\* C18, amended: a status event pushes the previous currentStatus onto
\* statusHistory exactly when it is non-empty, is not the placeholder and is
\* not yet an entry of statusHistory at any position, and then replaces
\* currentStatus with the status field of the event; nothing else of the
\* accumulator changes.
C18_StatusPush ==
    \A t \in Turns :
        \A i \in 1..Len(StatusCalls(t)) :
            LET c == StatusCalls(t)[i]
                prev == c.before.currentStatus
                push == /\ prev # Undefined /\ prev # <<>> /\ prev # Placeholder
                        /\ \A k \in 1..Len(c.before.history) : c.before.history[k] # prev
            IN /\ c.after.history =
                    (IF push THEN Append(c.before.history, prev) ELSE c.before.history)
               /\ c.after.currentStatus = Get(c.data, "status")
               /\ c.after.content = c.before.content
               /\ c.after.usage = c.before.usage

\* Statuses A, B, A were set and a fourth status event arrived while "A" was
\* current and already in the history behind "B": nothing was pushed.
C18_Witness ==
    \E t \in Turns :
        /\ Len(StatusCalls(t)) = 4
        /\ StatusCalls(t)[4].before.currentStatus = <<"A">>
        /\ StatusCalls(t)[4].before.history = << <<"A">>, <<"B">> >>
        /\ turn[t].history = << <<"A">>, <<"B">> >>

\* The token fields of the token events among evs[1..n], concatenated in
\* arrival order (an absent field is the empty text).
RECURSIVE TokensUpTo(_, _)
TokensUpTo(evs, n) ==
    IF n = 0 THEN <<>>
    ELSE TokensUpTo(evs, n - 1) \o
         (IF evs[n].type = EvToken /\ "token" \in DOMAIN evs[n].data
          THEN evs[n].data["token"] ELSE <<>>)

\* C14: the snapshot a complete event emits is not thinking and its content
\* is the concatenation, in arrival order and without deduplication, of the
\* token fields of all token events the turn has received so far.
C14_CompleteContent ==
    \A t \in Turns :
        LET evs == EventsOf(turn[t].calls) IN
        \A i \in 1..Len(evs) :
            evs[i].type = EvComplete =>
                /\ evs[i].snap.isThinking = FALSE
                /\ evs[i].snap.content = TokensUpTo(evs, i)

\* The token "Hel" was delivered twice, then "lo", then complete: the
\* terminal snapshot reads "HelHello".
C14_Witness ==
    \E t \in Turns :
        LET evs == EventsOf(turn[t].calls) IN
        /\ Len(evs) = 4
        /\ evs[1].data = EvtTokenHel.data /\ evs[1].type = EvToken
        /\ evs[2].data = EvtTokenHel.data /\ evs[2].type = EvToken
        /\ evs[3].type = EvToken
        /\ evs[4].type = EvComplete
        /\ evs[4].snap.content = <<"Hel", "Hel", "lo">>

\* The onEvent calls of turn t that carried a token_usage event.
UsageCalls(t) ==
    SelectSeq(EventsOf(turn[t].calls), LAMBDA c : c.type = <<"token_usage">>)

\* C19 as stated: the snapshot a token_usage event emits has the usage record
\* of that event's payload: each field the payload names has the payload's
\* value, and a field it does not name has its initial value, not a value an
\* earlier token_usage event set.
C19_UsageReplaced ==
    \A t \in Turns :
        \A i \in 1..Len(UsageCalls(t)) :
            LET c == UsageCalls(t)[i] IN
            \A k \in DOMAIN c.snap.usage :
                c.snap.usage[k] = IF k \in DOMAIN c.data THEN c.data[k] ELSE InitialUsage[k]

\* The accumulator the switch of onEvent leaves when it handles the event
\* from the accumulator acc.
Replay(acc, event, data) ==
    LET tr == [IdleTurn EXCEPT !.currentStatus = acc.currentStatus,
                               !.history = acc.history, !.content = acc.content,
                               !.citations = acc.citations,
                               !.stateChanges = acc.stateChanges,
                               !.usage = acc.usage]
    IN Acc(Dispatch([tr |-> tr, isStreaming |-> TRUE, error |-> <<>>,
                     dispatched |-> <<>>], event, data).tr)

\* An event name in lower case with underscores for spaces.
Canonical(name) ==
    CASE name \in {<<"tool", SP, "response">>, <<"Tool_Response">>} -> <<"tool_response">>
      [] name = <<"Tool_Call">> -> <<"tool_call">>
      [] name = <<"token", SP, "usage">> -> <<"token_usage">>
      [] name = <<"Status">> -> <<"status">>
      [] name = <<"state", SP, "change">> -> <<"state_change">>
      [] OTHER -> name

\* C20 as stated: an event whose name differs from a recognized name only in
\* letter case or in space versus underscore is handled as the recognized
\* name is.
C20_Original ==
    \A t \in Turns :
        LET evs == EventsOf(turn[t].calls) IN
        \A i \in 1..Len(evs) :
            evs[i].after = Replay(evs[i].before, Canonical(evs[i].type), evs[i].data)

\* The names the switch of onEvent has a case label for, and for the
\* labels written with spaces the name they stand for.
SwitchLabels ==
    {<<"status">>, <<"tool_call">>, <<"tool", SP, "call">>, <<"tool_response">>,
     <<"tool", SP, "response">>, <<"sub_agent_call">>, <<"sub_agent", SP, "call">>,
     <<"sub", SP, "agent", SP, "call">>, <<"sub_agent_response">>,
     <<"sub_agent", SP, "response">>, <<"sub", SP, "agent", SP, "response">>,
     <<"token">>, <<"citation">>, <<"state_change">>, <<"state", SP, "change">>,
     <<"complete">>, <<"error">>, <<"token_usage">>, <<"code_proposal">>}

LabelStandsFor(name) ==
    CASE name = <<"tool", SP, "call">> -> <<"tool_call">>
      [] name = <<"tool", SP, "response">> -> <<"tool_response">>
      [] name \in {<<"sub_agent", SP, "call">>, <<"sub", SP, "agent", SP, "call">>}
           -> <<"sub_agent_call">>
      [] name \in {<<"sub_agent", SP, "response">>, <<"sub", SP, "agent", SP, "response">>}
           -> <<"sub_agent_response">>
      [] name = <<"state", SP, "change">> -> <<"state_change">>
      [] OTHER -> name

\* C20, amended: dispatch is by exact name.  An event under one of the
\* spellings with spaces that the switch lists is handled as the name it
\* stands for; an event under any other name, also one that differs from a
\* recognized name only in letter case or in spacing, leaves the accumulator
\* as it was and emits the generic snapshot of it.
C20_ExactNames ==
    \A t \in Turns :
        LET evs == EventsOf(turn[t].calls) IN
        \A i \in 1..Len(evs) :
            IF evs[i].type \in SwitchLabels
            THEN evs[i].after = Replay(evs[i].before, LabelStandsFor(evs[i].type), evs[i].data)
            ELSE /\ evs[i].after = evs[i].before
                 /\ evs[i].snap.content = evs[i].before.content
                 /\ evs[i].snap.usage = evs[i].before.usage
                 /\ evs[i].snap.isThinking = (Len(evs[i].before.content) = 0)

\* A "tool response" frame set the status line as "tool_response" does, and
\* a "token usage" frame after it left the usage counters at their start.
C20_Witness ==
    \E t \in Turns :
        LET evs == EventsOf(turn[t].calls) IN
        /\ Len(evs) = 2
        /\ evs[1].type = <<"tool", SP, "response">>
        /\ evs[1].after.currentStatus = <<"grep", " - ", "Done">>
        /\ evs[2].type = <<"token", SP, "usage">>
        /\ turn[t].usage = InitialUsage

\* The session id held after the first n entries of the log: the last header
\* value captured since the last reset, null (<<>>) if there is none.
RECURSIVE Held(_, _)
Held(log, n) ==
    IF n = 0 THEN <<>>
    ELSE IF log[n].op = "reset" THEN <<>>
    ELSE IF log[n].op = "headers" /\ log[n].value # <<>> THEN log[n].value
    ELSE Held(log, n - 1)

\* The id held is the one the log gives, and so is every id sent.
SessionIdFollowsLog ==
    /\ sessionId = Held(sessionLog, Len(sessionLog))
    /\ \A i \in 1..Len(sessionLog) :
          sessionLog[i].op = "send" =>
              /\ sessionLog[i].value = Held(sessionLog, i - 1)
              /\ turn[sessionLog[i].turn].reqSessionId = sessionLog[i].value

\* A step that clears a held id is a reset, and changes nothing else of the
\* hook or of its turns.
ClearedByResetOnly ==
    (sessionId # <<>> /\ sessionId' = <<>>) =>
        /\ sessionLog' = Append(sessionLog, [op |-> "reset", turn |-> 0, value |-> <<>>])
        /\ UNCHANGED <<turn, isStreaming, error, dispatched, fetchCalls>>

\* C15: the session_id a turn sends in its request body is the id held when
\* sendMessage is called: null until a response has carried the
\* X-Chat-Session-Id header, afterwards the most recently captured header
\* value; a response without the header leaves it as it is, only
\* resetSession sets it back to null, and resetSession changes nothing else.
C15_SessionId == []SessionIdFollowsLog /\ [][ClearedByResetOnly]_vars

\* The first turn captured "sid-1", the second turn sent it and its response
\* carried no header, and a reset then cleared the id.
C15_Witness ==
    /\ Len(sessionLog) = 5
    /\ sessionLog[2].op = "headers" /\ sessionLog[2].value = <<"sid-1">>
    /\ sessionLog[3].op = "send" /\ sessionLog[3].value = <<"sid-1">>
    /\ sessionLog[4].op = "headers" /\ sessionLog[4].value = <<>>
    /\ sessionLog[5].op = "reset"
    /\ sessionId = <<>>

\* The events of turn t form a chain that starts at the empty accumulator,
\* each event handled from the accumulator the turn's previous event left,
\* and each snapshot is built from the turn's own accumulator.
OwnEventsOnly(t) ==
    LET evs == EventsOf(turn[t].calls) IN
    /\ \A i \in 1..Len(evs) :
          /\ evs[i].before = (IF i = 1 THEN Acc(IdleTurn) ELSE evs[i - 1].after)
          /\ evs[i].after = Replay(evs[i].before, evs[i].type, evs[i].data)
          /\ evs[i].snap =
                FullSnapshot(evs[i].after, evs[i].after.content,
                             evs[i].type # EvComplete /\ Len(evs[i].after.content) = 0)
    /\ Acc(turn[t]) = (IF evs = <<>> THEN Acc(IdleTurn) ELSE evs[Len(evs)].after)

\* The indices of the log at which a response header set the session id.
Captures == {i \in 1..Len(sessionLog) :
                sessionLog[i].op = "headers" /\ sessionLog[i].value # <<>>}

\* C17: with turns in flight at once, the snapshots of each turn are built
\* from that turn's own events only, and the shared session id is the header
\* value of the response whose headers arrived last, whatever the order of
\* the requests.
C17_TurnsIsolated ==
    /\ \A t \in Turns : OwnEventsOnly(t)
    /\ \A i \in Captures :
          (\A j \in (i + 1)..Len(sessionLog) :
              j \notin Captures /\ sessionLog[j].op # "reset")
          => sessionId = sessionLog[i].value

\* Both turns were sent before either response arrived; the headers of the
\* second turn arrived first, those of the first turn last, and the id held
\* is the first turn's; the turns received different frames, interleaved.
C17_Witness ==
    /\ Len(sessionLog) = 4
    /\ sessionLog[1].op = "send" /\ sessionLog[2].op = "send"
    /\ sessionLog[3] = [op |-> "headers", turn |-> 2, value |-> <<"sid-2">>]
    /\ sessionLog[4] = [op |-> "headers", turn |-> 1, value |-> <<"sid-1">>]
    /\ sessionId = <<"sid-1">>
    /\ turn[1].content = <<"Hel">> /\ turn[1].currentStatus = Placeholder
    /\ turn[2].content = <<>> /\ turn[2].currentStatus = <<"A">>
    /\ turn[1].pc = "reading" /\ turn[2].pc = "reading"

\* C16: when the accept/reject request fails, one error notice is shown,
\* pendingProposals and the active file (content, pendingContent,
\* proposalId) are as they were, and isProcessing is false again; if nothing
\* else changed them or the view while the request was in flight, the
\* buttons are enabled again for the same proposal.
C16_FailureLeavesPending ==
    \A i \in 1..Len(ui.outcome) :
        LET o == ui.outcome[i] IN
        o.result = "rejected" =>
            /\ o.shown /\ o.snackbar.open /\ o.snackbar.severity = "error"
            /\ o.after = o.before
            /\ o.isProcessing = FALSE
            /\ (/\ o.after.activeFile = <<o.request.activeFile>>
                /\ o.after.pendingProposals = o.request.pendingProposals
                /\ o.viewMode = "diff")
               => o.enabled

\* A request failed and the same action was sent again for the same proposal.
C16_Witness ==
    /\ ui.outcome # <<>>
    /\ ui.outcome[1].result = "rejected"
    /\ ui.outcome[1].snackbar.message = <<"Action failed">>
    /\ ui.request # <<>>
    /\ ui.request[1].proposal_id = ui.outcome[1].request.proposal_id
    /\ ui.request[1].proposal_id = <<"p1">>
    /\ ui.isProcessing

\* The entries of h from the i-th on, one per line.
RECURSIVE LinesFrom(_, _)
LinesFrom(h, i) ==
    IF i > Len(h) THEN <<>>
    ELSE IF i = Len(h) THEN ToText(h[i])
    ELSE ToText(h[i]) \o <<NL>> \o LinesFrom(h, i + 1)

\* The reasoning string composed of a status line and a history.
Composed(currentStatus, history) ==
    IF history = <<>> THEN currentStatus
    ELSE ToText(currentStatus) \o <<NL, "---", NL>> \o LinesFrom(history, 1)

\* C21 as stated: the reasoning of every snapshot of a turn that began
\* streaming, the terminal ones included, is composed of the status line and
\* the history held when it was emitted.
C21_ReasoningComposed ==
    \A t \in Turns :
        \A i \in 1..Len(turn[t].updates) :
            LET u == turn[t].updates[i] IN
            u.by # "missing" => u.snap.reasoning = Composed(u.currentStatus, u.history)

\* The onEvent calls of turn t made before a terminal event was delivered.
BeforeTerminal(t) ==
    LET evs == EventsOf(turn[t].calls)
    IN {i \in 1..Len(evs) : \A j \in 1..i : evs[j].type \notin {EvComplete, EvError}}

\* The event names that change no field of the accumulator.
IsQuiet(name) ==
    \/ name \in ToolCallNames \cup SubAgentCallNames
    \/ name \notin SwitchLabels

\* C22: before a terminal event, every event delivered to the reducer
\* triggers exactly one snapshot, which carries the content accumulated so
\* far and is thinking if and only if that content is empty; this includes
\* tool_call, sub_agent_call and unrecognized names, which change no field of
\* the accumulator.
C22_OneSnapshotPerEvent ==
    \A t \in Turns :
        LET evs == EventsOf(turn[t].calls) IN
        \A i \in BeforeTerminal(t) :
            /\ evs[i].snapshots = 1
            /\ evs[i].snap.content = evs[i].after.content
            /\ evs[i].snap.isThinking = (evs[i].after.content = <<>>)
            /\ IsQuiet(evs[i].type) => evs[i].after = evs[i].before

\* An unrecognized event was delivered while the content was empty and a
\* tool_call after a token had arrived: the first snapshot is thinking, the
\* second is not.
C22_Witness ==
    \E t \in Turns :
        LET evs == EventsOf(turn[t].calls) IN
        /\ Len(evs) = 3
        /\ BeforeTerminal(t) = 1..3
        /\ evs[1].type = <<"heartbeat">> /\ evs[1].snap.isThinking
        /\ evs[2].type = EvToken
        /\ evs[3].type = <<"tool_call">> /\ ~evs[3].snap.isThinking
        /\ Len(turn[t].updates) = 4

\* The event type named by the last event: line among the first i processed
\* lines, "message" when there is none.
RECURSIVE TypeAfter(_, _)
TypeAfter(log, i) ==
    IF i = 0 THEN EvMessage
    ELSE IF Head(log[i].line) = "event:" THEN Trim(Tail(log[i].line))
    ELSE TypeAfter(log, i - 1)

\* C23: every line of a call is handled, and every well-formed data: line
\* delivered to onEvent, under the event type of the most recent event: line
\* before it in the same call, "message" if there is none, however many data:
\* lines and reads lie between the two.
C23_StickyEventType ==
    \A t \in Turns :
        LET log == turn[t].linelog
            got == EventsOf(turn[t].calls)
            good == {i \in 1..Len(log) : IsWellFormed(log[i])}
        IN /\ \A i \in 1..Len(log) : log[i].type = TypeAfter(log, i - 1)
           /\ Len(got) = Cardinality(good)
           /\ \A i \in good :
                 got[Cardinality({j \in good : j <= i})].type = TypeAfter(log, i - 1)

\* A read ended inside the data: line of a token frame, after its event:
\* line; the line was delivered as a token event by a later read, and so was
\* the unlabelled data: line after it.
C23_Witness ==
    \E t \in Turns :
        LET got == EventsOf(turn[t].calls) IN
        /\ turn[t].cut
        /\ Len(got) = 2
        /\ got[1].type = EvToken /\ got[2].type = EvToken
        /\ Get(got[2].data, "event") = <<"error">>
        /\ Len(turn[t].linelog) = 3

\* A processed line that is an error frame: a data: line with a payload,
\* handled under the event type "error", or under "message" with the event
\* name "error" in its payload.
IsErrorFrame(l) ==
    /\ Head(l.line) = "data:"
    /\ Trim(Tail(l.line)) # <<>>
    /\ \/ l.type = EvError
       \/ /\ l.type = EvMessage
          /\ IsWellFormed(l)
          /\ Get(JSONparse(Trim(Tail(l.line))).val, "event") = EvError

NoErrorFrame(t) == \A i \in 1..Len(turn[t].linelog) : ~IsErrorFrame(turn[t].linelog[i])

\* The lines of the text s that end with a newline and are not blank, trimmed.
RECURSIVE TrimmedLines(_)
TrimmedLines(parts) ==
    IF Len(parts) <= 1 THEN <<>>
    ELSE IF Trim(Head(parts)) = <<>> THEN TrimmedLines(Tail(parts))
    ELSE <<Trim(Head(parts))>> \o TrimmedLines(Tail(parts))

\* C24: a call whose stream has ended without an error frame has resolved
\* and has not called onError; the lines it handled are the lines of the
\* received text that a newline ended, so that what follows the last newline
\* was handled by nothing and delivered to no callback.
C24_EndDiscardsTail ==
    \A t \in Turns :
        (turn[t].pc = "settled" /\ turn[t].closed /\ NoErrorFrame(t)) =>
            /\ turn[t].sse = "resolved"
            /\ \A i \in 1..Len(turn[t].calls) : ~IsOnError(turn[t].calls[i])
            /\ [i \in 1..Len(turn[t].linelog) |-> turn[t].linelog[i].line]
                  = TrimmedLines(Split(Decode(turn[t].wire, <<>>).text))
            /\ Len(EventsOf(turn[t].calls))
                  = Cardinality({i \in 1..Len(turn[t].linelog) :
                                    IsWellFormed(turn[t].linelog[i])})

\* A stream ended after a status frame and a data: line without a newline:
\* the call resolved with one event delivered and the line left in the buffer.
C24_Witness ==
    \E t \in Turns :
        /\ turn[t].sse = "resolved"
        /\ turn[t].buffer = <<"data:", "{", "}">>
        /\ Len(EventsOf(turn[t].calls)) = 1
        /\ Len(turn[t].linelog) = 2

\* The onEvent calls of turn t made for a code_proposal event.
ProposalCalls(t) ==
    SelectSeq(EventsOf(turn[t].calls), LAMBDA c : c.type = <<"code_proposal">>)

\* A payload field that is there and is not the empty string.
Has(data, k) == k \in DOMAIN data /\ data[k] # <<>> /\ data[k] # Undefined

\* C25: a code_proposal event whose payload has a file path and proposed
\* content (each a non-empty value) dispatches one CODE_PROPOSAL notification
\* with the file path, original content, proposed content and proposal id of
\* the payload and sets currentStatus to "Proposed changes for <file path>";
\* any other code_proposal event dispatches nothing and leaves the accumulator
\* as it was.
C25_ProposalDispatch ==
    \A t \in Turns :
        \A i \in 1..Len(ProposalCalls(t)) :
            LET c == ProposalCalls(t)[i] IN
            IF Has(c.data, "file_path") /\ Has(c.data, "proposed_content")
            THEN /\ c.dispatched =
                      <<[filePath |-> c.data["file_path"],
                         originalContent |-> Get(c.data, "original_content"),
                         proposedContent |-> c.data["proposed_content"],
                         proposalId |-> Get(c.data, "proposal_id")]>>
                 /\ c.after =
                      [c.before EXCEPT !.currentStatus =
                          <<"Proposed changes for ">> \o c.data["file_path"]]
            ELSE /\ c.dispatched = <<>>
                 /\ c.after = c.before

\* After the status "A": a proposal without proposed content left the status
\* as it was and dispatched nothing, and a proposal with all four fields
\* was dispatched and set the status.
C25_Witness ==
    \E t \in Turns :
        LET evs == EventsOf(turn[t].calls) IN
        /\ Len(evs) = 3
        /\ evs[1].type = EvStatus
        /\ evs[2].data = EvtProposalNoContent.data
        /\ evs[2].after.currentStatus = <<"A">>
        /\ evs[3].data = EvtProposalA.data
        /\ Len(dispatched) = 1
        /\ dispatched[1].proposalId = <<"p1">>
        /\ turn[t].currentStatus = <<"Proposed changes for ", "a.ts">>

\* C26 as stated: once the only sendMessage call of the hook that set
\* isStreaming has settled, isStreaming is false, however the stream ended.
C26_SettledNotStreaming ==
    \A t \in Turns :
        (/\ turn[t].pc = "settled"
         /\ Truthy(turn[t].folderId)
         /\ \A u \in Turns \ {t} : ~Started(u))
            => ~isStreaming

\* The turns whose streamSSE call is between its fetch and its end.
Open == {t \in Turns : turn[t].pc \in {"fetching", "reading"}}

\* C27 as stated: with turns started by handleSend only, at most one
\* streamSSE call is open at any time.
C27_OneStreamAtATime == Cardinality(Open) <= 1

\* The value v is on display after the call c: as the status line or as an
\* entry of the history.
Kept(c, v) ==
    \/ c.after.currentStatus = v
    \/ \E k \in 1..Len(c.after.history) : c.after.history[k] = v

\* The pairs <<i, j>> of onEvent calls of turn t, i a status event that set a
\* non-empty status other than the placeholder, and j not before i.
StatusThenLater(t) ==
    LET evs == EventsOf(turn[t].calls)
    IN {p \in (1..Len(evs)) \X (1..Len(evs)) :
          /\ p[1] <= p[2]
          /\ evs[p[1]].type = EvStatus
          /\ Truthy(Get(evs[p[1]].data, "status"))
          /\ Get(evs[p[1]].data, "status") # Placeholder}

\* The events that overwrite the status line without looking at it.
OverwritesStatus(c) ==
    /\ c.type \in ToolResponseNames \cup SubAgentResponseNames \cup {<<"code_proposal">>}
    /\ c.after.currentStatus # c.before.currentStatus

PendingUnder(m, proposalId) == {x \in DOMAIN m : m[x].proposalId = proposalId}

\* C29 as stated: after an accept or reject request that succeeded,
\* pendingProposals holds no entry for the proposal the request named.
C29_SuccessRemovesProposal ==
    \A i \in 1..Len(ui.outcome) :
        LET o == ui.outcome[i] IN
        o.result = "succeeded" =>
            PendingUnder(o.after.pendingProposals, o.request.proposal_id) = {}

\* The error entries of the log of the analysis view.
ErrorLogs(a) == SelectSeq(a.logs, LAMBDA l : l.type = "error")

\* C30 as stated: an analysis stream that failed leaves exactly one error
\* entry in the log of the view.
C30_OneErrorLog ==
    \A t \in Turns :
        turn[t].sse = "rejected" => Len(ErrorLogs(startAnalysisStream(t))) = 1

====
